---- MODULE Spec2Model ----
(***************************************************************************)
(* WindBorne live tracker: the trajectory predictor of the dashboard        *)
(* (predictNextPosition, haversineDelta, applyDeltaHaversine), the App      *)
(* around it (fetchBalloonData, fetchStatsForSelected, the map update       *)
(* effect, the Balloon Data panel) and the handler of api/proxy.js.         *)
(*                                                                         *)
(* Numbers.  The code computes in IEEE doubles; the model computes in       *)
(* fixed point on integers:                                                 *)
(*   - a degree is DegUnit units, so 179.5 degrees is 179 * DegUnit +       *)
(*     DegUnit \div 2;                                                      *)
(*   - a radian measure is counted in units of pi / (180 * DegUnit), so     *)
(*     PI is 180 * DegUnit of them and toRad keeps the number;              *)
(*   - a kilometre measure is counted in units of the arc of one radian     *)
(*     unit on the sphere of radius 6371 km (6371 * pi / (180 * DegUnit)     *)
(*     km), so the radius R is 1 km unit per radian unit;                   *)
(*   - a cosine is CosScale times its value, rounded; Math.cos(Math.PI/2)   *)
(*     is 6.123e-17 in doubles, not 0, and is CosPole, the smallest         *)
(*     positive cosine of the scale;                                        *)
(*   - a double is finite up to Number.MAX_VALUE, here MaxValue; beyond it  *)
(*     a result is PosInf or NegInf, and an undefined one is NaN.           *)
(***************************************************************************)
EXTENDS Integers, Sequences, FiniteSets, TLC

VARIABLES
    positions,   \* the history handed to predictNextPosition, most recent first
    modelData,   \* the App's modelData state: the loaded model, or none
    result,      \* outcome of the first predictNextPosition call
    again,       \* outcome of a second call on the same array and model
    pair,        \* two points handed to haversineDelta
    geoDelta,    \* what haversineDelta returned for pair, <<>> before the call
    geoBack,     \* what applyDeltaHaversine returned for it, <<>> before the call
    network,     \* what each of the 24 hour files will answer (the environment)
    requests,    \* the 24 promises of fetchBalloonData: pending or settled
    fetchPc,     \* fetchBalloonData: "idle", "waiting", "done" or "threw"
    modelFetch,  \* the model file request: "idle", "pending", "done" or "failed"
    balloonData, \* App state: one list of positions per hour, <<>> before the load
    timeIndex,   \* App state: the slider's hour
    selectedBalloon, \* App state: index of the selected balloon
    stats,       \* App state: <<>> or one record of per-balloon series
    statsRequests, \* calls of fetchStatsForSelected waiting for the wind data
    predictedPath, \* the map's predicted-path source: absent, or its line
    screen,      \* "off", "up", or "crashed" once a render has thrown
    proxyReq,    \* api/proxy.js: the request's query
    upstream,    \* what a.windbornesystems.com does with it (the environment)
    proxyPc,     \* handler: "idle", "start", "fetch", "text" or "done"
    proxyLocals, \* handler: its locals url and data
    resHeaders,  \* res: the headers set on the response
    sent         \* res: the responses sent, in order

geoVars == <<pair, geoDelta, geoBack>>

fetchVars == <<network, requests, fetchPc>>

appVars == <<modelFetch, balloonData, timeIndex, selectedBalloon, stats,
             statsRequests, predictedPath, screen>>

proxyVars == <<proxyReq, upstream, proxyPc, proxyLocals, resHeaders, sent>>

vars == <<positions, modelData, result, again, geoVars, fetchVars, appVars,
          proxyVars>>

---------------------------------------------------------------------------
(* Number representation *)

CosScale == 100
DegUnit == 2 * CosScale
CosPole == 1
MaxValue == 1000000000

PosInf == MaxValue + 1
NegInf == -(MaxValue + 1)
NaN == MaxValue + 2

IsFinite(v) == v >= -MaxValue /\ v <= MaxValue
IsInf(v) == v = PosInf \/ v = NegInf

Abs(v) == IF v < 0 THEN -v ELSE v
Sign(v) == IF v < 0 THEN -1 ELSE IF v > 0 THEN 1 ELSE 0

\* Division of doubles rounds; the fixed point rounds toward zero.
Quot(a, b) == Sign(a) * Sign(b) * (Abs(a) \div Abs(b))

\* The double nearest to the real number n, which is n within the range.
Fl(n) == IF n > MaxValue THEN PosInf ELSE IF n < -MaxValue THEN NegInf ELSE n

\* a + b in doubles.
FAdd(a, b) ==
    IF IsFinite(a) /\ IsFinite(b) THEN Fl(a + b)
    ELSE IF a = NaN \/ b = NaN THEN NaN
    ELSE IF IsInf(a) /\ IsInf(b) THEN (IF a = b THEN a ELSE NaN)
    ELSE IF IsInf(a) THEN a
    ELSE b

\* a * b in doubles.
FMul(a, b) ==
    IF a = NaN \/ b = NaN THEN NaN
    ELSE IF a = 0 \/ b = 0 THEN (IF IsInf(a) \/ IsInf(b) THEN NaN ELSE 0)
    ELSE IF IsInf(a) \/ IsInf(b) \/ Abs(a) > MaxValue \div Abs(b)
         THEN (IF Sign(a) * Sign(b) > 0 THEN PosInf ELSE NegInf)
    ELSE a * b

\* a / b in doubles.
FDiv(a, b) ==
    IF a = NaN \/ b = NaN THEN NaN
    ELSE IF IsInf(a) /\ IsInf(b) THEN NaN
    ELSE IF IsInf(a) THEN (IF Sign(a) * Sign(b) >= 0 THEN PosInf ELSE NegInf)
    ELSE IF IsInf(b) THEN 0
    ELSE IF b = 0 THEN (IF a = 0 THEN NaN ELSE IF a > 0 THEN PosInf ELSE NegInf)
    ELSE Quot(a, b)

\* JavaScript's a % b on finite numbers with b > 0: the remainder of the
\* division truncated toward zero, so it has the sign of a.
JsRem(a, b) == a - b * Quot(a, b)

---------------------------------------------------------------------------
(* Geometry helpers *)

R == 1
PI == 180 * DegUnit
RadPerDeg == PI \div (180 * DegUnit)
DegPerRad == (180 * DegUnit) \div PI

\* toRad = (v) => (v * Math.PI) / 180
ToRad(v) == v * RadPerDeg

\* CosScale * cos at the multiples of 15 degrees from 0 to 90.
CosTable == <<100, 97, 87, 71, 50, 26, CosPole>>

\* The cosine of exact arithmetic, which is 0 at the poles.
CosExact(a) ==
    IF Abs(a) = 90 * DegUnit * RadPerDeg THEN 0
    ELSE CosTable[(Abs(a) \div (15 * DegUnit * RadPerDeg)) + 1]

\* Math.cos on a radian measure that is a multiple of 15 degrees in
\* [-PI/2, PI/2].
Cos(a) == CosTable[(Abs(a) \div (15 * DegUnit * RadPerDeg)) + 1]

\* v * Math.cos(a) and v / Math.cos(a).
MulCos(v, a) == Quot(v * Cos(a), CosScale)
DivCos(v, a) == FDiv(FMul(v, CosScale), Cos(a))

\* applyDeltaHaversine without the division by the cosine of the latitude.
applyDeltaFlat(lat, lon, deltaLatKm, deltaLonKm) ==
    <<FAdd(lat, FMul(FDiv(deltaLatKm, R), DegPerRad)),
      FAdd(lon, FMul(FDiv(deltaLonKm, R), DegPerRad))>>

\* applyDeltaHaversine(lat, lon, deltaLatKm, deltaLonKm): [newLat, newLon]
applyDeltaHaversine(lat, lon, deltaLatKm, deltaLonKm) ==
    LET newLat == FAdd(lat, FMul(FDiv(deltaLatKm, R), DegPerRad))
        newLon == FAdd(lon, DivCos(FMul(FDiv(deltaLonKm, R), DegPerRad),
                                   ToRad(lat)))
    IN  <<newLat, newLon>>

\* The longitude difference after the line
\*   dlon = ((dlon + Math.PI) % (2 * Math.PI)) - Math.PI
WrapDlon(dlon) == JsRem(dlon + PI, 2 * PI) - PI

\* haversineDelta(lat1, lon1, lat2, lon2): [delta_lat_km, delta_lon_km]
haversineDelta(lat1, lon1, lat2, lon2) ==
    LET lat1r == ToRad(lat1)
        lat2r == ToRad(lat2)
        dlon == WrapDlon(ToRad(lon2 - lon1))
        dlat == ToRad(lat2 - lat1)
        x == MulCos(dlon, (lat1r + lat2r) \div 2) * R
        y == dlat * R
    IN  <<y, x>>

---------------------------------------------------------------------------
(* predictNextPosition *)

Window == 21
Pairs == 20

Min(a, b) == IF a < b THEN a ELSE b

\* array.slice(0, n): a copy of the first n elements (fewer when the array
\* is shorter).
Slice(seq, n) == SubSeq(seq, 1, Min(n, Len(seq)))

\* The slice left in its order, most recent first.
ReverseLeftOut(seq) == seq

\* array.reverse()
Reverse(seq) == [i \in 1..Len(seq) |-> seq[Len(seq) + 1 - i]]

\* positions.splice(0, 21): the cut elements leave the array they are cut from.
SpliceOff(arrays) ==
    [positions |-> SubSeq(arrays.positions,
                          Min(Window, Len(arrays.positions)) + 1,
                          Len(arrays.positions)),
     last21 |-> Slice(arrays.positions, Window)]

\* const last21 = positions.slice(0, 21): slice fills a new array and leaves
\* the array it is called on as it is.
SliceOff(arrays) == [arrays EXCEPT !.last21 = Slice(arrays.positions, Window)]

\* .reverse() reverses in place the array it is called on, here last21.
ReverseInPlace(arrays) == [arrays EXCEPT !.last21 = Reverse(@)]

\* The caller's array and the local last21 after line 65, for the caller's
\* array items.  Nothing after that line writes to an array of the caller:
\* features and delta are locals, and samples and model are only read.
CallArrays(items) ==
    ReverseInPlace(SliceOff([positions |-> items, last21 |-> <<>>]))

\* s.f without the default: an absent field is undefined, NaN in arithmetic.
OrNaN(s, f) == IF f \in DOMAIN s THEN s[f] ELSE NaN

\* s.f ?? 0 on a sample: the field, or 0 when the sample has none.
OrZero(s, f) == IF f \in DOMAIN s THEN s[f] ELSE 0

\* seq[i] ?? 1
ElemOrOne(seq, i) == IF i < Len(seq) THEN seq[i + 1] ELSE 1

\* seq[i] ?? 0 on an array, i counted from 0.
ElemOrZero(seq, i) == IF i < Len(seq) THEN seq[i + 1] ELSE 0

\* The guard without its test of modelData.
NothingToDoUnlessModel(pos, model) == ~pos.defined \/ Len(pos.items) = 0

\* if (!positions?.length || !modelData) return null;
NothingToDo(pos, model) ==
    ~pos.defined \/ Len(pos.items) = 0 \/ ~model.loaded

\* The guard one sample short: last21.length < 20.
TooShortByOne(last21) == Len(last21) < Window - 1

\* if (last21.length < 21) return null;
TooShort(last21) == Len(last21) < Window

\* The seven values one iteration of the loop pushes for the pair (a, b).
FeatureGroup(a, b) ==
    LET d == haversineDelta(a.lat, a.lon, b.lat, b.lon)
        deltaAlt == b.alt - a.alt
    IN  <<d[1], d[2], deltaAlt,
          OrZero(a, "balloon_speed"), OrZero(a, "balloon_dir"),
          OrZero(a, "windspeed"), OrZero(a, "winddir")>>

\* if (!a || !b) return null;  (j counted from 0)
PairMissing(last21, j) == j + 1 > Len(last21) \/ j + 2 > Len(last21)

\* The number of iterations of the feature loop that push their group, from
\* iteration j on: the loop stops at the first missing pair.
RECURSIVE PairsDone(_, _)
PairsDone(last21, j) ==
    IF j >= Pairs \/ PairMissing(last21, j) THEN 0
    ELSE 1 + PairsDone(last21, j + 1)

\* features after the iterations j .. n-1 of the loop.
RECURSIVE PushGroups(_, _, _)
PushGroups(last21, j, n) ==
    IF j >= n THEN <<>>
    ELSE FeatureGroup(last21[j + 1], last21[j + 2]) \o PushGroups(last21, j + 1, n)

\* v after the inner loop from column j on:
\*   v += (coef[i][j] ?? 0) * features[j]
\* (a NaN stays NaN whatever is added to it, so the loop's result is known
\* once v is NaN).
RECURSIVE Accumulate(_, _, _, _)
Accumulate(v, row, features, j) ==
    IF j >= Len(features) \/ v = NaN THEN v
    ELSE Accumulate(FAdd(v, FMul(ElemOrZero(row, j), features[j + 1])),
                    row, features, j + 1)

\* delta[i] started at 0 instead of intercept[i].
OutputNoIntercept(model, features, i) ==
    Accumulate(0, model.coef[i + 1], features, 0)

\* delta[i] for a row i the matrix has (i counted from 0).
Output(model, features, i) ==
    Accumulate(ElemOrZero(model.intercept, i), model.coef[i + 1], features, 0)

\* coef[i][j] throws a TypeError when coef has no row i.
RowMissing(model) == \E i \in 0..2 : i + 1 > Len(model.coef)

\* The oldest sample of the window: last21[0].
AnchorOldest(last21) == last21[1]

\* The sample the prediction starts from: last21[last21.length - 1].
Anchor(last21) == last21[Len(last21)]

\* The caller's array after predictNextPosition(positions): the first guard
\* returns before anything is built.
PositionsAfter(pos, model) ==
    IF NothingToDo(pos, model) THEN pos
    ELSE [pos EXCEPT !.items = CallArrays(pos.items).positions]

\* predictNextPosition(positions) with the App's modelData.  The outcome is
\* null, a thrown TypeError or a position; pairs counts the feature groups
\* the call computed, and features and delta are its locals.
predictNextPosition(pos, model) ==
    IF NothingToDo(pos, model) THEN [kind |-> "null", pairs |-> 0]
    ELSE
    LET last21 == CallArrays(pos.items).last21
    IN  IF TooShort(last21) THEN [kind |-> "null", pairs |-> 0]
        ELSE
        LET n == PairsDone(last21, 0)
            features == PushGroups(last21, 0, n)
        IN  IF n < Pairs THEN [kind |-> "null", pairs |-> n]
            ELSE IF RowMissing(model)
                 THEN [kind |-> "throw", pairs |-> n, features |-> features]
            ELSE
            LET delta == [i \in 1..3 |-> Output(model, features, i - 1)]
                last == Anchor(last21)
                new == applyDeltaHaversine(last.lat, last.lon, delta[1], delta[2])
            IN  [kind |-> "position", pairs |-> n, features |-> features,
                 delta |-> delta,
                 lat |-> new[1], lon |-> new[2], alt |-> FAdd(last.alt, delta[3])]

---------------------------------------------------------------------------
(* Inputs *)

MaxHist == 22
ModestEntry == 100
Tolerance == 1

Deg(d) == d * DegUnit
HalfDeg == DegUnit \div 2

\* Samples as fetchBalloonData builds them ({lat, lon, alt}), and samples
\* that carry the optional readings.
SEq == [lat |-> 0, lon |-> 0, alt |-> 10]
SEqZero == [lat |-> 0, lon |-> 0, alt |-> 10, balloon_speed |-> 0,
            balloon_dir |-> 0, windspeed |-> 0, winddir |-> 0]
SEast == [lat |-> Deg(60), lon |-> Deg(179) + HalfDeg, alt |-> 12,
          balloon_speed |-> 5, balloon_dir |-> 90, windspeed |-> 3,
          winddir |-> 270]
SWest == [lat |-> Deg(60), lon |-> -(Deg(179) + HalfDeg), alt |-> 11]
SPole == [lat |-> Deg(90), lon |-> Deg(30), alt |-> 10, balloon_speed |-> 0,
          balloon_dir |-> 0, windspeed |-> 0, winddir |-> 0]
SPart == [lat |-> Deg(-30), lon |-> Deg(90), alt |-> 9, windspeed |-> 4]

Samples == {SEq, SEqZero, SEast, SWest, SPole, SPart}

\* A history of n samples, most recent first: b within the window and SPart
\* past it, but s at index k (counted from 0).
Hist(n, b, k, s) ==
    [defined |-> TRUE,
     items |-> [i \in 1..n |->
                  IF i = k + 1 THEN s ELSE IF i > Window THEN SPart ELSE b]]

Undefined == [defined |-> FALSE, items |-> <<>>]

HistLens == {0, 1, Pairs, Window, MaxHist}
HistMarks == {0, 1, Pairs, Window}

Histories ==
    {Undefined} \cup
    {Hist(n, b, k, s) : n \in HistLens, b \in Samples, k \in HistMarks, s \in Samples}

FewHistories ==
    { Hist(Window, SEqZero, 0, SEqZero),
      Hist(Window, SEast, 0, SWest),
      Hist(MaxHist, SPole, 1, SEq),
      Hist(Pairs, SEq, 0, SEast) }

\* A model with rows x cols coefficients, all c0 but c1 at row si, column sj
\* (counted from 0), and the first ilen of the intercepts icpt.
Model(rows, cols, ilen, c0, c1, si, sj, icpt) ==
    [loaded |-> TRUE,
     coef |-> [i \in 1..rows |->
                 [j \in 1..cols |-> IF i = si + 1 /\ j = sj + 1 THEN c1 ELSE c0]],
     intercept |-> [i \in 1..ilen |-> icpt[i]]]

\* modelData before the model file has loaded (useState(null)).
NoModel == [loaded |-> FALSE, coef |-> <<>>, intercept |-> <<>>]

NFeatures == Pairs * 7
Huge == MaxValue

Shapes ==
    { <<3, NFeatures, 3>>,
      <<3, NFeatures - 1, 3>>, <<3, NFeatures + 1, 3>>,
      <<2, NFeatures, 3>>, <<4, NFeatures, 3>>,
      <<3, NFeatures, 2>>, <<3, NFeatures, 4>> }

Intercepts == { <<1, 2, -50, 7>> }
Marked == { <<0, 0>>, <<1, 1>>, <<2, 2>>, <<1, NFeatures - 2>> }

ZeroModel == Model(3, NFeatures, 3, 0, 0, 0, 0, <<1, 2, -50, 7>>)

Models ==
    {ZeroModel} \cup
    { Model(sh[1], sh[2], sh[3], c0, c1, m[1], m[2], ic) :
        sh \in Shapes, c0 \in {0, 1}, c1 \in {-1, 2, Huge},
        m \in Marked, ic \in Intercepts }

FewModels ==
    { NoModel, Model(3, NFeatures, 3, 1, 2, 1, 1, <<1, 2, -50, 7>>) }

NotCalled == [kind |-> "none"]

Lats == {Deg(-90), Deg(-60), 0, Deg(30), Deg(90)}
Lons == {Deg(-180), -(Deg(179) + HalfDeg), Deg(-60), Deg(90),
         Deg(179) + HalfDeg, Deg(180)}

NoPair == [lat1 |-> 0, lon1 |-> 0, lat2 |-> 0, lon2 |-> 0]

---------------------------------------------------------------------------
(* fetchBalloonData: the 24 hour files *)

Hours == 24
FreeHours == 3

HourSet == 0..(Hours - 1)

\* The indices of the balloons the hour files list.
BalloonSet == {0, 1}

\* The element [lat, lon, alt] of hour file h for balloon b: balloon 0 drifts
\* east at 30 degrees north, balloon 1 west at 60 degrees south.
Triple(b, h) ==
    [type |-> "array", first |-> "number",
     lat |-> IF b = 0 THEN Deg(30) ELSE Deg(-60),
     lon |-> IF b = 0 THEN Deg(10) - h * HalfDeg ELSE Deg(100) + h * DegUnit,
     alt |-> IF b = 0 THEN 10 + h ELSE 50 + 2 * h]

\* Elements the filter drops: an array that starts with a string, and null.
JunkArray == [type |-> "array", first |-> "string"]
JunkNull == [type |-> "null"]

\* JSON values of a whole file.
JsonArray(items) == [type |-> "array", items |-> items]
JsonObject == [type |-> "object"]
JsonNull == [type |-> "null"]

\* What a request can come to: fetch or res.text() rejects, or the text
\* arrives, valid JSON or not.
Rejected == [kind |-> "rejected"]
BadText == [kind |-> "text", valid |-> FALSE]
Text(v) == [kind |-> "text", valid |-> TRUE, value |-> v]

\* Hour file h listing the balloons 0 .. n-1.
Good(h, n) == Text(JsonArray([i \in 1..n |-> Triple(i - 1, h)]))

\* The value of the promise
\*   fetch(u).then(res => res.text()).then(t => JSON.parse or null).catch(() => null)
\* which never rejects.
PromiseValue(answer) ==
    IF answer.kind = "rejected" THEN JsonNull
    ELSE IF ~answer.valid THEN JsonNull
    ELSE answer.value

Pending == [status |-> "pending"]
Fulfilled(v) == [status |-> "fulfilled", value |-> v]

\* r.value as a condition.
Truthy(v) == v.type # "null"

\* r.value.filter is a function only on an array.
HasFilter(v) == v.type = "array"

\* (p) => Array.isArray(p) && typeof p[0] === "number"
IsPosition(p) == p.type = "array" /\ p.first = "number"

\* ([lat, lon, alt]) => ({ lat, lon, alt })
ToPosition(p) == [lat |-> p.lat, lon |-> p.lon, alt |-> p.alt]

FilterMap(items) ==
    LET kept == SelectSeq(items, IsPosition)
    IN  [i \in 1..Len(kept) |-> ToPosition(kept[i])]

\* r.status === "fulfilled" && r.value
TakesValue(r) == r.status = "fulfilled" /\ Truthy(r.value)

\* The callback of results.map on one result; it throws a TypeError when the
\* value it takes has no filter.
EntryThrows(r) == TakesValue(r) /\ ~HasFilter(r.value)

ParsedEntry(r) == IF TakesValue(r) THEN FilterMap(r.value.items) ELSE <<>>

AllSettled(reqs) == \A h \in HourSet : reqs[h].status # "pending"

\* results.map(...) over the settled results, in the order of the urls.
Parsed(reqs) == [i \in 1..Hours |-> ParsedEntry(reqs[i - 1])]

ParseThrows(reqs) == \E h \in HourSet : EntryThrows(reqs[h])

---------------------------------------------------------------------------
(* api/proxy.js: the handler *)

\* req.query: a file name, or no file parameter.
Queries == { [file |-> "00.json"], [file |-> "23.json"], [file |-> "../x"], [other |-> "1"] }

\* `https://a.windbornesystems.com/treasure/${file}`: an absent file reads
\* "undefined".
UrlOf(query) ==
    [base |-> "https://a.windbornesystems.com/treasure/",
     file |-> IF "file" \in DOMAIN query THEN query.file ELSE "undefined"]

\* What the upstream does: fetch rejects, or resolves with a response of some
\* HTTP status whose text() rejects or resolves with the body.
UpstreamStatuses == {200, 404, 500}
Bodies == {"[[1,2,3]]", "", "<html>503</html>"}

Upstreams ==
    { [fetch |-> "rejects"] } \cup
    { [fetch |-> "resolves", status |-> st, text |-> "rejects"] : st \in UpstreamStatuses } \cup
    { [fetch |-> "resolves", status |-> st, text |-> "resolves", body |-> b] :
        st \in UpstreamStatuses, b \in Bodies }

\* The locals before their lines have run.
NoLocals == [url |-> <<>>, data |-> <<>>]

\* A request arrives: nothing is set on res and nothing is sent.
Arrived(query, up) ==
    /\ proxyReq = query
    /\ upstream = up
    /\ proxyPc = "start"
    /\ proxyLocals = NoLocals
    /\ resHeaders = {}
    /\ sent = <<>>

\* No request is at the handler.
NoRequest ==
    /\ proxyReq = [file |-> "00.json"]
    /\ upstream = [fetch |-> "rejects"]
    /\ proxyPc = "idle"
    /\ proxyLocals = NoLocals
    /\ resHeaders = {}
    /\ sent = <<>>

\* res.status(code).send(body): the response goes out with the headers set
\* on res.
Send(code, body, headers) ==
    Append(sent, [status |-> code, body |-> body, headers |-> headers])

\* A catch block that sends nothing.
CaughtSilently == sent

\* catch (err) { res.status(500).send({ error: 'Failed to fetch API' }); }
Caught == Send(500, [error |-> "Failed to fetch API"], resHeaders)

---------------------------------------------------------------------------
(* What the hour files answer *)

\* Every hour lists both balloons.
AllGood == [h \in HourSet |-> Good(h, 2)]

\* Balloon 1 is listed in the 20 most recent hours only.
ShortSecond == [h \in HourSet |-> IF h < Window - 1 THEN Good(h, 2) ELSE Good(h, 1)]

\* The most recent hour lists balloon 0 only.
LateSecond == [h \in HourSet |-> IF h = 0 THEN Good(h, 1) ELSE Good(h, 2)]

\* The request of the most recent hour fails.
FirstMissing == [AllGood EXCEPT ![0] = Rejected]

\* Every request fails.
NoneGood == [h \in HourSet |-> Rejected]

\* Hour 5 answers with a JSON object, as api/proxy.js does when its own
\* fetch fails: {"error": "Failed to fetch API"}.
ProxyError == [AllGood EXCEPT ![5] = Text(JsonObject)]

\* An hour file with elements that are no positions among the positions.
WithJunk(h) ==
    Text(JsonArray(<<JunkArray, Triple(0, h), JunkNull, Triple(1, h)>>))

MarkedHours == {0, 5, Hours - 1}

MarkedAnswers(h) ==
    { Rejected, BadText, Text(JsonNull), Text(JsonObject),
      Text(JsonArray(<<>>)), WithJunk(h) }

AppNetworks == {AllGood, ShortSecond, LateSecond, FirstMissing, NoneGood, ProxyError}

FetchNetworks ==
    AppNetworks \cup
    UNION { { [AllGood EXCEPT ![h] = a] : a \in MarkedAnswers(h) } : h \in MarkedHours }

---------------------------------------------------------------------------
(* The App: state, render and effects *)

MaxInFlight == 2
WindFallbackLen == 24

\* The model file of the deployment: a compatible model.
AppModel == Model(3, NFeatures, 3, 1, 2, 1, 1, <<1, 2, -50, 7>>)

\* balloonData.map((t) => t[idx]).filter(Boolean): the positions of balloon
\* idx in the hours that list it, most recent hour first.
PositionsOf(bd, idx) ==
    LET Lists(i) == idx < Len(bd[i])
        hours == SelectSeq([i \in 1..Len(bd) |-> i], Lists)
    IN  [k \in 1..Len(hours) |-> bd[hours[k]][idx + 1]]

\* The response of api.open-meteo.com: none that parses, or the two hourly
\* series.
WindFailed == [ok |-> FALSE]
WindOk(speeds, dirs) ==
    [ok |-> TRUE, windspeed_10m |-> speeds, winddirection_10m |-> dirs]

WindAnswers == {WindFailed, WindOk(<<>>, <<>>), WindOk(<<7, 8, 9>>, <<70, 80>>)}

NoWind == [wind_speed |-> 0, wind_deg |-> 0]

\* windData after the try and its catch.
WindData(answer) ==
    IF answer.ok
    THEN [i \in 1..Len(answer.windspeed_10m) |->
            [wind_speed |-> answer.windspeed_10m[i],
             wind_deg |-> ElemOrZero(answer.winddirection_10m, i - 1)]]
    ELSE [i \in 1..WindFallbackLen |-> NoWind]

\* windData[t % windData.length] || { wind_speed: 0, wind_deg: 0 }
\* (t % 0 is NaN, and windData[NaN] is undefined).
WindAt(windData, t) ==
    IF Len(windData) = 0 THEN NoWind ELSE windData[(t % Len(windData)) + 1]

\* The record setStats stores: one element per position in each series.
\* (speeds and directions are pushed in step with altitudes; no property
\* reads them and they are left out.)
StatsOf(pos, windData) ==
    [altitudes |-> [t \in 1..Len(pos) |-> pos[t].alt],
     windSpeeds |-> [t \in 1..Len(pos) |-> WindAt(windData, t - 1).wind_speed],
     windDirs |-> [t \in 1..Len(pos) |-> WindAt(windData, t - 1).wind_deg]]

\* fetchStatsForSelected(idx) up to its await: the call waits for the wind
\* data with the positions it has read, or returns at once without any.
StatsEffect(bd, sel, reqs) ==
    IF Len(bd) = 0 THEN reqs
    ELSE LET pos == PositionsOf(bd, sel)
         IN  IF Len(pos) = 0 THEN reqs
             ELSE Append(reqs, [idx |-> sel, positions |-> pos])

NoLine == [present |-> FALSE]

\* predLine: from the current position to the predicted one.
PredLine(current, predicted) ==
    [present |-> TRUE,
     from |-> <<current.lon, current.lat>>,
     to |-> <<predicted.lon, predicted.lat>>]

\* balloonData as fetchBalloonData sets it when the hour files answer net.
Delivered(net) == Parsed([h \in HourSet |-> Fulfilled(PromiseValue(net[h]))])

\* The histories of the balloons under AppNetworks, and what
\* predictNextPosition returns on each with AppModel, computed once.
AppHistories ==
    { PositionsOf(Delivered(net), b) : net \in AppNetworks \ {ProxyError}, b \in BalloonSet }

AppPredictions ==
    { [items |-> pos,
       predicted |-> predictNextPosition([defined |-> TRUE, items |-> pos], AppModel)] :
      pos \in AppHistories }

\* const predicted = predictNextPosition(positions) in the map update effect.
PredictedFor(bd, sel, model) ==
    LET pos == PositionsOf(bd, sel)
    IN  IF model = AppModel /\ pos \in AppHistories
        THEN (CHOOSE e \in AppPredictions : e.items = pos).predicted
        ELSE predictNextPosition([defined |-> TRUE, items |-> pos], model)

\* The predicted-path source after the map update effect (of the map's
\* sources the model keeps this one): added or given the new line when there
\* is a prediction, and otherwise left as it is.
MapUpdate(bd, sel, model, path) ==
    IF Len(bd) = 0 \/ ~model.loaded THEN path
    ELSE LET predicted == PredictedFor(bd, sel, model)
         IN  IF predicted.kind = "position"
             THEN PredLine(PositionsOf(bd, sel)[1], predicted)
             ELSE path

\* The map update effect throws when predictNextPosition does.
MapUpdateThrows(bd, sel, model) ==
    /\ Len(bd) > 0 /\ model.loaded
    /\ PredictedFor(bd, sel, model).kind = "throw"

\* currentBalloon = balloonData[timeIndex]?.[selectedBalloon]
HasCurrentBalloon(bd, ti, sel) == ti < Len(bd) /\ sel < Len(bd[ti + 1])

\* {currentBalloon && stats.length > 0 && (...)}
PanelShown(bd, ti, sel, st) == HasCurrentBalloon(bd, ti, sel) /\ Len(st) > 0

\* stats[0].windSpeeds[timeIndex].toFixed(2) and its like on windDirs throw a
\* TypeError on undefined.
RenderThrows(bd, ti, sel, st) ==
    /\ PanelShown(bd, ti, sel, st)
    /\ \/ ti + 1 > Len(st[1].windSpeeds)
       \/ ti + 1 > Len(st[1].windDirs)

\* firstValidTime.map((_, i) => <option value={i}>): the balloons of the
\* first hour that has any.
Options(bd) ==
    IF \E i \in 1..Len(bd) : Len(bd[i]) > 0
    THEN LET first == CHOOSE i \in 1..Len(bd) :
                        /\ Len(bd[i]) > 0
                        /\ \A k \in 1..(i - 1) : Len(bd[k]) = 0
         IN  0..(Len(bd[first]) - 1)
    ELSE {}

\* The features of balloons-layer a click can hit: the balloons of the
\* slider's hour (the handler was registered while showAll was true).
Clickable(bd, ti) == IF ti < Len(bd) THEN 0..(Len(bd[ti + 1]) - 1) ELSE {}

\* The App is not mounted: nothing is requested and nothing is shown.
NotMounted ==
    /\ network = <<>>
    /\ requests = <<>>
    /\ fetchPc = "idle"
    /\ modelFetch = "idle"
    /\ balloonData = <<>>
    /\ timeIndex = 0
    /\ selectedBalloon = 0
    /\ stats = <<>>
    /\ statsRequests = <<>>
    /\ predictedPath = NoLine
    /\ screen = "off"

\* The App after its first render and mount effects: the model file and the
\* 24 hour files are requested, every useState holds its initial value and
\* the map has no predicted-path source.
Mounted(net) ==
    /\ network = net
    /\ requests = [h \in HourSet |-> Pending]
    /\ fetchPc = "waiting"
    /\ modelFetch = "pending"
    /\ balloonData = <<>>
    /\ timeIndex = 0
    /\ selectedBalloon = 0
    /\ stats = <<>>
    /\ statsRequests = <<>>
    /\ predictedPath = NoLine
    /\ screen = "up"

---------------------------------------------------------------------------
(* The predictor called on a history and a model *)

Init ==
    /\ \/ positions \in Histories /\ modelData \in FewModels
       \/ positions \in FewHistories /\ modelData \in Models
    /\ result = NotCalled
    /\ again = NotCalled
    /\ pair = NoPair
    /\ geoDelta = <<>>
    /\ geoBack = <<>>
    /\ NotMounted
    /\ NoRequest

\* const predicted = predictNextPosition(positions);
Predict ==
    /\ result = NotCalled
    /\ result' = predictNextPosition(positions, modelData)
    /\ positions' = PositionsAfter(positions, modelData)
    /\ UNCHANGED <<modelData, again, geoVars, fetchVars, appVars, proxyVars>>

\* The same call once more, on the array and the model as the first call
\* left them.
PredictAgain ==
    /\ result # NotCalled
    /\ again = NotCalled
    /\ again' = predictNextPosition(positions, modelData)
    /\ positions' = PositionsAfter(positions, modelData)
    /\ UNCHANGED <<modelData, result, geoVars, fetchVars, appVars, proxyVars>>

Next == Predict

Spec == Init /\ [][Next]_vars

\* Histories and models for two calls in a row: every outcome of the call
\* (null at either guard, TypeError, position), on histories shorter than,
\* as long as and longer than the window.
TwiceHistories ==
    FewHistories \cup
    { Undefined, Hist(0, SEq, 0, SEq), Hist(MaxHist, SEast, 0, SWest) }

TwiceModels ==
    { NoModel, ZeroModel } \cup
    { Model(sh[1], sh[2], sh[3], 1, 2, 1, 1, <<1, 2, -50, 7>>) : sh \in Shapes }

TwiceInit ==
    /\ positions \in TwiceHistories
    /\ modelData \in TwiceModels
    /\ result = NotCalled
    /\ again = NotCalled
    /\ pair = NoPair
    /\ geoDelta = <<>>
    /\ geoBack = <<>>
    /\ NotMounted
    /\ NoRequest

TwiceNext == Predict \/ PredictAgain

TwiceSpec == TwiceInit /\ [][TwiceNext]_vars

---------------------------------------------------------------------------
(* haversineDelta and applyDeltaHaversine called on two points *)

GeoInit ==
    /\ pair \in [lat1 : Lats, lon1 : Lons, lat2 : Lats, lon2 : Lons]
    /\ geoDelta = <<>>
    /\ geoBack = <<>>
    /\ positions = Undefined
    /\ modelData = NoModel
    /\ result = NotCalled
    /\ again = NotCalled
    /\ NotMounted
    /\ NoRequest

\* const [dLat, dLon] = haversineDelta(a.lat, a.lon, b.lat, b.lon);
CallDelta ==
    /\ geoDelta = <<>>
    /\ geoDelta' = haversineDelta(pair.lat1, pair.lon1, pair.lat2, pair.lon2)
    /\ UNCHANGED <<positions, modelData, result, again, pair, geoBack,
                   fetchVars, appVars, proxyVars>>

\* applyDeltaHaversine at the first point, on the delta to the second.
CallApply ==
    /\ geoDelta # <<>>
    /\ geoBack = <<>>
    /\ geoBack' = applyDeltaHaversine(pair.lat1, pair.lon1, geoDelta[1], geoDelta[2])
    /\ UNCHANGED <<positions, modelData, result, again, pair, geoDelta,
                   fetchVars, appVars, proxyVars>>

GeoNext == CallDelta \/ CallApply

GeoSpec == GeoInit /\ [][GeoNext]_vars

---------------------------------------------------------------------------
(* The App: loads, selections, slider moves and wind responses *)

predVars == <<positions, result, again>>

\* The requests settle in any order among the first FreeHours of them and
\* against the others, which settle in the order of their hours.
CanSettle(h) ==
    /\ requests[h].status = "pending"
    /\ h < FreeHours \/ \A k \in FreeHours..(h - 1) : requests[k].status # "pending"

\* The promise of hour h settles.
Settle(h) ==
    /\ fetchPc = "waiting"
    /\ CanSettle(h)
    /\ requests' = [requests EXCEPT ![h] = Fulfilled(PromiseValue(network[h]))]
    /\ UNCHANGED <<network, fetchPc, modelData, predVars, geoVars, appVars, proxyVars>>

\* Promise.allSettled resolves: fetchBalloonData maps the results and calls
\* setBalloonData, or throws out of results.map.  On the new balloonData
\* React renders and runs the stats effect and the map update effect.
Finish ==
    /\ fetchPc = "waiting"
    /\ AllSettled(requests)
    /\ IF ParseThrows(requests)
       THEN /\ fetchPc' = "threw"
            /\ UNCHANGED <<appVars>>
       ELSE /\ fetchPc' = "done"
            /\ balloonData' = Parsed(requests)
            /\ IF RenderThrows(balloonData', timeIndex, selectedBalloon, stats)
               THEN /\ screen' = "crashed"
                    /\ UNCHANGED <<statsRequests, predictedPath>>
               ELSE /\ statsRequests' =
                          StatsEffect(balloonData', selectedBalloon, statsRequests)
                    /\ predictedPath' =
                          MapUpdate(balloonData', selectedBalloon, modelData, predictedPath)
                    /\ screen' =
                          IF MapUpdateThrows(balloonData', selectedBalloon, modelData)
                          THEN "crashed" ELSE "up"
            /\ UNCHANGED <<modelFetch, timeIndex, selectedBalloon, stats>>
    /\ UNCHANGED <<network, requests, modelData, predVars, geoVars, proxyVars>>

\* The model file arrives and parses: setModelData(data); the map update
\* effect runs on the new modelData.
LoadModel ==
    /\ screen = "up"
    /\ modelFetch = "pending"
    /\ modelFetch' = "done"
    /\ modelData' = AppModel
    /\ predictedPath' = MapUpdate(balloonData, selectedBalloon, modelData', predictedPath)
    /\ screen' = IF MapUpdateThrows(balloonData, selectedBalloon, modelData')
                 THEN "crashed" ELSE "up"
    /\ UNCHANGED <<balloonData, timeIndex, selectedBalloon, stats, statsRequests,
                   fetchVars, predVars, geoVars, proxyVars>>

\* The model file fails to load: console.error, modelData stays null.
ModelFails ==
    /\ modelFetch = "pending"
    /\ modelFetch' = "failed"
    /\ UNCHANGED <<modelData, balloonData, timeIndex, selectedBalloon, stats,
                   statsRequests, predictedPath, screen, fetchVars, predVars,
                   geoVars, proxyVars>>

\* setSelectedBalloon(i) from the select box or from a click on the map, for
\* another balloon than the selected one; React renders and runs the stats
\* effect and the map update effect.
SelectBalloon(i) ==
    /\ screen = "up"
    /\ i \in Options(balloonData) \cup Clickable(balloonData, timeIndex)
    /\ i # selectedBalloon
    /\ Len(statsRequests) < MaxInFlight
    /\ selectedBalloon' = i
    /\ IF RenderThrows(balloonData, timeIndex, i, stats)
       THEN /\ screen' = "crashed"
            /\ UNCHANGED <<statsRequests, predictedPath>>
       ELSE /\ statsRequests' = StatsEffect(balloonData, i, statsRequests)
            /\ predictedPath' = MapUpdate(balloonData, i, modelData, predictedPath)
            /\ screen' = IF MapUpdateThrows(balloonData, i, modelData)
                         THEN "crashed" ELSE "up"
    /\ UNCHANGED <<modelFetch, modelData, balloonData, timeIndex, stats,
                   fetchVars, predVars, geoVars, proxyVars>>

\* setTimeIndex(t) from the slider (min 0, max balloonData.length - 1), for
\* another hour than the current one; React renders and runs the map update
\* effect.
MoveSlider(t) ==
    /\ screen = "up"
    /\ t \in 0..(Len(balloonData) - 1)
    /\ t # timeIndex
    /\ timeIndex' = t
    /\ IF RenderThrows(balloonData, t, selectedBalloon, stats)
       THEN /\ screen' = "crashed"
            /\ UNCHANGED predictedPath
       ELSE /\ predictedPath' =
                  MapUpdate(balloonData, selectedBalloon, modelData, predictedPath)
            /\ screen' = IF MapUpdateThrows(balloonData, selectedBalloon, modelData)
                         THEN "crashed" ELSE "up"
    /\ UNCHANGED <<modelFetch, modelData, balloonData, selectedBalloon, stats,
                   statsRequests, fetchVars, predVars, geoVars, proxyVars>>

\* The sequence without its k-th element.
Without(seq, k) == SubSeq(seq, 1, k - 1) \o SubSeq(seq, k + 1, Len(seq))

\* The wind request of the k-th waiting call of fetchStatsForSelected comes
\* back with answer: the call builds its series from the positions it read
\* before the await and calls setStats; React renders.
CompleteStats(k, answer) ==
    /\ screen = "up"
    /\ k \in 1..Len(statsRequests)
    /\ stats' = << StatsOf(statsRequests[k].positions, WindData(answer)) >>
    /\ statsRequests' = Without(statsRequests, k)
    /\ screen' = IF RenderThrows(balloonData, timeIndex, selectedBalloon, stats')
                 THEN "crashed" ELSE "up"
    /\ UNCHANGED <<modelFetch, modelData, balloonData, timeIndex, selectedBalloon,
                   predictedPath, fetchVars, predVars, geoVars, proxyVars>>

\* predictNextPosition and the geometry helpers are not called on their own.
NoCalls ==
    /\ positions = Undefined
    /\ result = NotCalled
    /\ again = NotCalled
    /\ pair = NoPair
    /\ geoDelta = <<>>
    /\ geoBack = <<>>

AppInit ==
    /\ \E net \in AppNetworks : Mounted(net)
    /\ modelData = NoModel
    /\ NoCalls
    /\ NoRequest

AppNext ==
    \/ \E h \in HourSet : Settle(h)
    \/ Finish
    \/ LoadModel
    \/ ModelFails
    \/ \E i \in BalloonSet : SelectBalloon(i)
    \/ \E t \in HourSet : MoveSlider(t)
    \/ \E k \in 1..MaxInFlight, answer \in WindAnswers : CompleteStats(k, answer)

AppSpec == AppInit /\ [][AppNext]_vars

\* fetchBalloonData alone, on more kinds of answers.
FetchInit ==
    /\ \E net \in FetchNetworks : Mounted(net)
    /\ modelData = NoModel
    /\ NoCalls
    /\ NoRequest

FetchNext ==
    \/ \E h \in HourSet : Settle(h)
    \/ Finish

FetchSpec == FetchInit /\ [][FetchNext]_vars

---------------------------------------------------------------------------
(* api/proxy.js: one request through the handler *)

notProxyVars == <<positions, modelData, result, again, geoVars, fetchVars, appVars>>

\* const { file } = req.query; const url = ...; fetch(url) is called.
CallFetch ==
    /\ proxyPc = "start"
    /\ proxyLocals' = [proxyLocals EXCEPT !.url = <<UrlOf(proxyReq)>>]
    /\ proxyPc' = "fetch"
    /\ UNCHANGED <<proxyReq, upstream, resHeaders, sent, notProxyVars>>

\* await fetch(url) resolves with the upstream's response, whatever its HTTP
\* status; response.text() is called.
FetchResolves ==
    /\ proxyPc = "fetch"
    /\ upstream.fetch = "resolves"
    /\ proxyPc' = "text"
    /\ UNCHANGED <<proxyReq, upstream, proxyLocals, resHeaders, sent, notProxyVars>>

\* await fetch(url) throws: the catch block answers.
FetchRejects ==
    /\ proxyPc = "fetch"
    /\ upstream.fetch = "rejects"
    /\ sent' = Caught
    /\ proxyPc' = "done"
    /\ UNCHANGED <<proxyReq, upstream, proxyLocals, resHeaders, notProxyVars>>

\* await response.text() resolves: the header is set and the body sent with
\* status 200.
TextResolves ==
    /\ proxyPc = "text"
    /\ upstream.text = "resolves"
    /\ proxyLocals' = [proxyLocals EXCEPT !.data = <<upstream.body>>]
    /\ resHeaders' = resHeaders \cup {<<"Access-Control-Allow-Origin", "*">>}
    /\ sent' = Send(200, proxyLocals'.data[1], resHeaders')
    /\ proxyPc' = "done"
    /\ UNCHANGED <<proxyReq, upstream, notProxyVars>>

\* await response.text() throws: the catch block answers.
TextRejects ==
    /\ proxyPc = "text"
    /\ upstream.text = "rejects"
    /\ sent' = Caught
    /\ proxyPc' = "done"
    /\ UNCHANGED <<proxyReq, upstream, proxyLocals, resHeaders, notProxyVars>>

ProxyInit ==
    /\ \E query \in Queries, up \in Upstreams : Arrived(query, up)
    /\ NotMounted
    /\ modelData = NoModel
    /\ NoCalls

ProxyNext ==
    \/ CallFetch
    \/ FetchResolves
    \/ FetchRejects
    \/ TextResolves
    \/ TextRejects

\* An awaited fetch or text() settles in the end, one way or the other.
ProxySpec == ProxyInit /\ [][ProxyNext]_vars /\ WF_vars(ProxyNext)

---------------------------------------------------------------------------
(* Vocabulary of the properties *)

Items == positions.items
Called == result.kind # "none"
LongEnough == positions.defined /\ Len(Items) >= Window

\* The model has the shape the feature layout asks for: 3 x 140 and 3.
Compatible(model) ==
    /\ model.loaded
    /\ Len(model.coef) = 3
    /\ \A i \in 1..3 : Len(model.coef[i]) = NFeatures
    /\ Len(model.intercept) = 3

\* The model cut or zero-filled to 3 x 140 coefficients and 3 intercepts
\* (for a model of three rows or more).
Fitted(model) ==
    [loaded |-> TRUE,
     coef |-> [i \in 1..3 |->
                 [j \in 1..NFeatures |->
                    IF j <= Len(model.coef[i]) THEN model.coef[i][j] ELSE 0]],
     intercept |-> [i \in 1..3 |->
                      IF i <= Len(model.intercept) THEN model.intercept[i] ELSE 0]]

\* The sample with every optional reading it lacks set to 0.
ZeroFilled(s) ==
    [lat |-> s.lat, lon |-> s.lon, alt |-> s.alt,
     balloon_speed |-> IF "balloon_speed" \in DOMAIN s THEN s.balloon_speed ELSE 0,
     balloon_dir |-> IF "balloon_dir" \in DOMAIN s THEN s.balloon_dir ELSE 0,
     windspeed |-> IF "windspeed" \in DOMAIN s THEN s.windspeed ELSE 0,
     winddir |-> IF "winddir" \in DOMAIN s THEN s.winddir ELSE 0]

OmitsReadings(s) == DOMAIN s = {"lat", "lon", "alt"}

\* The longitude difference d (within two turns) brought into (-PI, PI].
Wrapped(d) == CHOOSE w \in {d - 2 * PI, d, d + 2 * PI} : w > -PI /\ w <= PI

---------------------------------------------------------------------------
(* C1: wrong-shaped model *)

WrongShape == modelData.loaded /\ ~Compatible(modelData)

---------------------------------------------------------------------------
(* C2: longitude wraparound in haversineDelta *)

MeanLat == (ToRad(pair.lat1) + ToRad(pair.lat2)) \div 2

\* C2: haversineDelta brings lon2 - lon1 into (-180, 180] degrees before it
\* scales by R and the cosine of the mean latitude; from 179.5 to -179.5 at
\* one latitude the east delta is the small positive one of one degree.
C2_LongitudeDifferenceWrapped ==
    geoDelta # <<>> =>
        geoDelta[2] = MulCos(Wrapped(ToRad(pair.lon2 - pair.lon1)), MeanLat) * R

---------------------------------------------------------------------------
(* C3: fewer than 21 samples *)

\* C3: on a history of fewer than 21 samples, the empty and the absent one
\* included, the call returns null and has computed no feature group, whatever
\* the model is.
C3_ShortHistoryUnavailable ==
    (Called /\ (~positions.defined \/ Len(Items) < Window)) =>
        result.kind = "null" /\ result.pairs = 0

\* A call on 20 samples with a loaded model of the wrong shape.
C3_Witness ==
    /\ Called /\ positions.defined /\ Len(Items) = Window - 1
    /\ WrongShape
    /\ result.kind = "null"

---------------------------------------------------------------------------
(* C4: model not loaded *)

\* C4: while modelData is not loaded the call returns null for every history.
C4_NoModelUnavailable ==
    (Called /\ ~modelData.loaded) => result.kind = "null"

\* A call without a model on more than 21 samples.
C4_Witness ==
    Called /\ ~modelData.loaded /\ LongEnough /\ Len(Items) > Window

---------------------------------------------------------------------------
(* C5: layout of the feature vector *)

\* w[j] of the claim: history[20 - j], j counted from 0.
W(j) == Items[(Window - 1 - j) + 1]

\* C5: for a history of at least 21 samples the feature vector has 140
\* elements; elements 7j .. 7j+6 are the north delta, the east delta and the
\* altitude delta (later minus earlier) of (w[j], w[j+1]) and then
\* balloon_speed, balloon_dir, windspeed, winddir of w[j], for w[j] =
\* history[20 - j]; the samples from index 21 on change nothing.
C5_FeatureLayout ==
    (Called /\ LongEnough /\ modelData.loaded) =>
        /\ "features" \in DOMAIN result
        /\ Len(result.features) = 140
        /\ \A j \in 0..19 :
             LET a == W(j)
                 b == W(j + 1)
                 d == haversineDelta(a.lat, a.lon, b.lat, b.lon)
                 x == result.features
             IN  /\ x[7 * j + 1] = d[1]
                 /\ x[7 * j + 2] = d[2]
                 /\ x[7 * j + 3] = b.alt - a.alt
                 /\ x[7 * j + 4] = (IF "balloon_speed" \in DOMAIN a THEN a.balloon_speed ELSE 0)
                 /\ x[7 * j + 5] = (IF "balloon_dir" \in DOMAIN a THEN a.balloon_dir ELSE 0)
                 /\ x[7 * j + 6] = (IF "windspeed" \in DOMAIN a THEN a.windspeed ELSE 0)
                 /\ x[7 * j + 7] = (IF "winddir" \in DOMAIN a THEN a.winddir ELSE 0)
        /\ result = predictNextPosition(
                        [defined |-> TRUE, items |-> SubSeq(Items, 1, Window)],
                        modelData)

\* A call on 22 samples whose oldest used sample, newest sample and sample
\* past the window all differ, with readings on the older sample of a pair.
C5_Witness ==
    /\ Called /\ LongEnough /\ modelData.loaded
    /\ Len(Items) = MaxHist
    /\ Items[Window + 1] # Items[Window]
    /\ Items[1] = SWest /\ Items[2] = SEast
    /\ result.features[7 * 19 + 4] = 5

---------------------------------------------------------------------------
(* C6: the affine map *)

Modest(v) == Abs(v) <= ModestEntry

\* Every coefficient and intercept of the model is of modest size.
ModestModel(model) ==
    /\ \A i \in 1..Len(model.coef) :
         \A j \in 1..Len(model.coef[i]) : Modest(model.coef[i][j])
    /\ \A i \in 1..Len(model.intercept) : Modest(model.intercept[i])

\* coef[i] . x over the columns of group g, and over all groups up to g
\* (i, g counted from 0), in exact integers.
GroupDot(model, x, i, g) ==
    LET c == model.coef[i + 1]
    IN  c[7*g + 1] * x[7*g + 1] + c[7*g + 2] * x[7*g + 2] + c[7*g + 3] * x[7*g + 3]
        + c[7*g + 4] * x[7*g + 4] + c[7*g + 5] * x[7*g + 5] + c[7*g + 6] * x[7*g + 6]
        + c[7*g + 7] * x[7*g + 7]

RECURSIVE DotUpTo(_, _, _, _)
DotUpTo(model, x, i, g) ==
    IF g < 0 THEN 0 ELSE GroupDot(model, x, i, g) + DotUpTo(model, x, i, g - 1)

AllZero(model) == \A i \in 1..3 : \A j \in 1..NFeatures : model.coef[i][j] = 0

FixedPoint ==
    \A i \in 1..Window : Items[i] = Items[1] /\ ZeroFilled(Items[i]) = Items[i]
                         /\ Items[i].balloon_speed = 0 /\ Items[i].balloon_dir = 0
                         /\ Items[i].windspeed = 0 /\ Items[i].winddir = 0

\* coef[i][k] * x[k] in doubles (k counted from 1).
Term(model, x, i, k) == FMul(model.coef[i + 1][k], x[k])

\* v plus the seven terms of group g, added from the left in doubles (a NaN
\* stays NaN).
GroupSum(model, x, i, g, v) ==
    IF v = NaN THEN NaN
    ELSE
    FAdd(FAdd(FAdd(FAdd(FAdd(FAdd(FAdd(v,
        Term(model, x, i, 7*g + 1)), Term(model, x, i, 7*g + 2)),
        Term(model, x, i, 7*g + 3)), Term(model, x, i, 7*g + 4)),
        Term(model, x, i, 7*g + 5)), Term(model, x, i, 7*g + 6)),
        Term(model, x, i, 7*g + 7))

\* intercept[i] plus the terms of the groups 0 .. g, in doubles.
RECURSIVE SumThrough(_, _, _, _)
SumThrough(model, x, i, g) ==
    IF g < 0 THEN model.intercept[i + 1]
    ELSE GroupSum(model, x, i, g, SumThrough(model, x, i, g - 1))

\* C6: with a compatible model each delta[i] is intercept[i] plus the sum over
\* the 140 features of coef[i][j] * x[j] (as doubles add and multiply, and
\* exactly while the entries keep the sums in range); for 21 samples at one
\* point with all readings 0 and an all-zero matrix the delta is the intercept
\* vector and the altitude is the last altitude plus intercept[2].
C6_AffineMap ==
    (Called /\ LongEnough /\ Compatible(modelData)) =>
        /\ result.kind = "position"
        /\ Len(result.features) = NFeatures
        /\ \A i \in 0..2 :
             /\ result.delta[i + 1] =
                    SumThrough(modelData, result.features, i, Pairs - 1)
             /\ ModestModel(modelData) =>
                    result.delta[i + 1] =
                        modelData.intercept[i + 1]
                        + DotUpTo(modelData, result.features, i, Pairs - 1)
        /\ (FixedPoint /\ AllZero(modelData)) =>
             /\ result.delta = modelData.intercept
             /\ result.alt = Items[1].alt + modelData.intercept[3]

\* The example of the claim: a fixed point, zero readings, zero matrix and the
\* intercepts (0.01, 0.02, -0.5) in hundredths.
C6_ExampleWitness ==
    /\ Called /\ LongEnough /\ Compatible(modelData)
    /\ FixedPoint /\ AllZero(modelData)
    /\ modelData.intercept = <<1, 2, -50>>
    /\ result.alt = 10 - 50

\* A call whose delta has a nonzero coefficient term.
C6_Witness ==
    /\ Called /\ LongEnough /\ Compatible(modelData) /\ ModestModel(modelData)
    /\ result.delta[2] # modelData.intercept[2]

---------------------------------------------------------------------------
(* C7: missing optional readings *)

ZeroFilledHistory ==
    [defined |-> TRUE, items |-> [i \in 1..Len(Items) |-> ZeroFilled(Items[i])]]

\* C7: for a history of at least 21 samples the outcome is the outcome for the
\* same history with every omitted reading set to 0, and with a compatible
\* model it is a position: an omitted reading makes no error and no null.
C7_MissingReadingsAreZero ==
    (Called /\ LongEnough /\ modelData.loaded) =>
        /\ result = predictNextPosition(ZeroFilledHistory, modelData)
        /\ Compatible(modelData) => result.kind = "position"

\* A call on a moving history all of whose samples omit the four readings,
\* with a model whose coefficients on the readings are not 0.
C7_Witness ==
    /\ Called /\ LongEnough /\ Compatible(modelData)
    /\ \A i \in 1..Len(Items) : i <= Window => OmitsReadings(Items[i])
    /\ Items[1] # Items[2]
    /\ modelData.coef[1][4] # 0
    /\ result.kind = "position"

---------------------------------------------------------------------------
(* C8: finite results *)

Finite3 ==
    /\ result.kind = "position"
    /\ IsFinite(result.lat) /\ IsFinite(result.lon) /\ IsFinite(result.alt)

\* C8 as stated: for at least 21 samples with latitudes in [-90, 90] and
\* longitudes in [-180, 180] and every compatible model of finite entries the
\* call returns a position of finite latitude, longitude and altitude.
C8_AlwaysFinite ==
    (Called /\ LongEnough /\ Compatible(modelData)) => Finite3

\* C8 as the code has it: the same, for the compatible models whose entries
\* are small enough that no product or sum of the call leaves the range of the
\* doubles; the poles are covered, the cosine of the anchor is never 0.
C8_FiniteWhenInRange ==
    (Called /\ LongEnough /\ Compatible(modelData) /\ ModestModel(modelData)) =>
        Finite3

\* A call anchored at the pole whose east delta is not 0.
C8_Witness ==
    /\ Called /\ LongEnough /\ Compatible(modelData) /\ ModestModel(modelData)
    /\ Items[1].lat = Deg(90)
    /\ result.kind = "position"
    /\ result.delta[2] # 0
    /\ result.lon # Items[1].lon

---------------------------------------------------------------------------
(* C9: the anchor *)

\* C9: the predicted latitude and longitude are applyDeltaHaversine at
\* history[0] on (delta[0], delta[1]), and the predicted altitude is
\* history[0].alt + delta[2].
C9_AnchoredAtMostRecent ==
    (Called /\ result.kind = "position") =>
        /\ <<result.lat, result.lon>> =
               applyDeltaHaversine(Items[1].lat, Items[1].lon,
                                   result.delta[1], result.delta[2])
        /\ result.alt = FAdd(Items[1].alt, result.delta[3])

\* A position predicted from a history whose newest sample differs from every
\* other sample of the window in latitude, longitude and altitude.
C9_Witness ==
    /\ Called /\ result.kind = "position"
    /\ \A i \in 2..Window :
         /\ Items[i].lat # Items[1].lat
         /\ Items[i].lon # Items[1].lon
         /\ Items[i].alt # Items[1].alt

---------------------------------------------------------------------------
(* C10: round trip at one latitude *)

SameLatitude == pair.lat1 = pair.lat2 /\ Abs(pair.lat1) < Deg(90)

\* C10: at one latitude short of the poles, applyDeltaHaversine at the first
\* point on the delta haversineDelta gives to the second returns the latitude
\* and, up to a whole turn, the second longitude, within the tolerance.
C10_RoundTrip ==
    (geoBack # <<>> /\ SameLatitude) =>
        /\ Abs(geoBack[1] - pair.lat1) <= Tolerance
        /\ \E turn \in {-1, 0, 1} :
             Abs(geoBack[2] - (pair.lon2 + turn * Deg(360))) <= Tolerance

\* A round trip across the antimeridian that comes back a whole turn away.
C10_Witness ==
    /\ geoBack # <<>> /\ SameLatitude
    /\ pair.lat1 = Deg(-60)
    /\ pair.lon1 = -(Deg(179) + HalfDeg) /\ pair.lon2 = Deg(179) + HalfDeg
    /\ geoBack[2] = pair.lon2 - Deg(360)

---------------------------------------------------------------------------
(* C11: no side effects on the inputs *)

\* C11: a call of predictNextPosition, whatever its outcome, leaves the
\* history array it was handed (length, order, samples) and the model
\* (coefficients, intercepts) as they were, and a second call on the same
\* history and model returns what the first returned.
C11_InputsUntouched ==
    /\ [][positions' = positions /\ modelData' = modelData]_vars
    /\ [](again # NotCalled => again = result)

\* Two calls that returned a position from a history longer than the window
\* whose newest sample is not its oldest used sample, so that a slice or a
\* reversal left on the array would show.
C11_Witness ==
    /\ again.kind = "position"
    /\ Len(Items) > Window
    /\ Items[1] # Items[Window]
    /\ Items # Reverse(Items)

---------------------------------------------------------------------------
(* C12: no predicted-path line without a prediction *)

\* The history of the selected balloon.
SelectedPositions == PositionsOf(balloonData, selectedBalloon)

\* The prediction for the selected balloon is Unavailable: fewer than 21
\* samples, or no model.
Unavailable == Len(SelectedPositions) < Window \/ ~modelData.loaded

\* C12: in every state reached by balloon selections, slider moves and data
\* and model loads, when the prediction for the selected balloon is
\* Unavailable the map shows no predicted-path line; a line drawn for a
\* balloon selected before does not stay.
C12_NoLineWhenUnavailable ==
    Unavailable => ~predictedPath.present

---------------------------------------------------------------------------
(* C13: the 24 hour files *)

\* What the claim has entry h hold for an answer: the positions of a file
\* that is a list, and the empty list for a failed request, for text that is
\* not JSON and for JSON that is not a list.
ListedPositions(answer) ==
    IF answer.kind = "text" /\ answer.valid /\ answer.value.type = "array"
    THEN FilterMap(answer.value.items)
    ELSE <<>>

FetchFinished == fetchPc # "waiting"

\* C13: balloonData is set only once all 24 requests have settled, in
\* whatever order; when fetchBalloonData has finished, balloonData has 24
\* entries and entry h holds the positions of hour file h, or the empty list
\* when that hour's request failed or answered something that is no list of
\* positions, whatever the other hours answered.
C13_EveryHourLoaded ==
    /\ ~AllSettled(requests) => balloonData = <<>>
    /\ FetchFinished =>
         /\ Len(balloonData) = Hours
         /\ \A h \in HourSet : balloonData[h + 1] = ListedPositions(network[h])

---------------------------------------------------------------------------
(* C14: the statistics of the selected balloon *)

\* The stored stats are the ones fetchStatsForSelected computes for the
\* positions pos, on some answer of the wind service.
StatsComputedFor(pos) ==
    /\ Len(stats) = 1
    /\ \E answer \in WindAnswers : stats[1] = StatsOf(pos, WindData(answer))

\* C14: after any selections and any completion order of the wind requests,
\* once no request is in flight the stored stats are those computed for the
\* selected balloon (a slower request of an earlier selection has not
\* overwritten them), and none are stored when the selected balloon has no
\* positions.
C14_StatsOfSelected ==
    (screen = "up" /\ fetchPc = "done" /\ statsRequests = <<>>) =>
        IF Len(SelectedPositions) = 0
        THEN stats = <<>>
        ELSE StatsComputedFor(SelectedPositions)

---------------------------------------------------------------------------
(* C15: the Balloon Data panel reads its series at the slider's hour *)

\* series[i] is defined (i counted from 0).
DefinedAt(series, i) == i < Len(series)

\* C15: whenever the Balloon Data panel is rendered, that is
\* balloonData[timeIndex][selectedBalloon] exists and stats is not empty,
\* stats[0].windSpeeds[timeIndex] and stats[0].windDirs[timeIndex] are
\* defined, whichever hours are empty or lack the balloon, wherever the
\* slider stands and whatever is selected.
C15_SeriesCoverSlider ==
    PanelShown(balloonData, timeIndex, selectedBalloon, stats) =>
        /\ DefinedAt(stats[1].windSpeeds, timeIndex)
        /\ DefinedAt(stats[1].windDirs, timeIndex)

---------------------------------------------------------------------------
(* C16: the proxy answers every request once *)

Completed == upstream.fetch = "resolves" /\ upstream.text = "resolves"

ErrorObject == [error |-> "Failed to fetch API"]

\* C16: the handler sends exactly one response per request: status 200 with
\* the upstream's body text and the header Access-Control-Allow-Origin: *
\* when the upstream fetch and the body read complete, whatever the
\* upstream's HTTP status, and status 500 with an error object when either
\* of them throws; never both, and no request stays unanswered.
C16_ExactlyOneResponse ==
    /\ [](Len(sent) <= 1)
    /\ [](proxyPc = "done" =>
            /\ Len(sent) = 1
            /\ IF Completed
               THEN /\ sent[1].status = 200
                    /\ sent[1].body = upstream.body
                    /\ <<"Access-Control-Allow-Origin", "*">> \in sent[1].headers
               ELSE /\ sent[1].status = 500
                    /\ sent[1].body = ErrorObject)
    /\ <>(Len(sent) = 1)

\* The upstream answered 404 and the handler passed its body on with 200.
C16_Witness ==
    /\ proxyPc = "done"
    /\ Completed /\ upstream.status = 404
    /\ Len(sent) = 1 /\ sent[1].status = 200

====
